---- MODULE Spec2Model ----
(***************************************************************************)
(* Model of the Echo24.cz scraper: main.py (plain HTTP fetch, run_once)    *)
(* and scrape_playwright.py (browser fetch, run_once_playwright).          *)
(* One process runs cycles against a storage root; the root survives the   *)
(* process, so a new process may be started on the same root.              *)
(***************************************************************************)
EXTENDS Integers, Sequences, FiniteSets, TLC

(* ------------------------------ bounds --------------------------------- *)
\* cycles started on the storage root, over all processes
MaxCycles == 2
\* paragraphs an extraction may yield (0 = empty body)
MaxParas == 1
\* largest --limit tried
MaxLimit == 2
\* longest list of collected tags
MaxTags == 3
\* longest body text, in characters
MaxBodyLen == 203

\* paragraph elements of a page
MaxDocParas == 2
\* elements of a page that match the body-container selector
MaxContainers == 2

\* main.py:221 / scrape_playwright.py:382: the snippet's length
SnippetLen == 200

(* --------------------------- the environment --------------------------- *)
\* candidate article URLs of the home page; their order is Python's string order
URLS == {1, 2, 3}
\* publish dates an extraction may yield for a page
DATES == {"20240101", "20240102"}
\* the --limit values given on the command line: <<>> is None (flag absent),
\* <<n>> the integer n
None == <<>>
LIMITS == {None} \cup {<<n>> : n \in 0..MaxLimit}
STRATEGIES == {"requests", "playwright"}

\* main.py:134 / scrape_playwright.py:152: last 8 hex digits of the md5 of the
\* URL; 32 bits, so distinct URLs may collide (URLs 1 and 3 do here).
url_md5_8(url) == IF url = 2 THEN "0000000b" ELSE "0000000a"

NoFile == [kind |-> "absent"]
NoArt == [url |-> 0, date |-> "", paras |-> 0]

VARIABLES
    strategy,   \* which script runs: main.py or scrape_playwright.py
    loopMode,   \* args.loop
    limit,      \* args.limit
    pc,         \* position of the process
    exit,       \* "running", or how the process ended
    exc,        \* the step whose exception left run_once, "none" if none did
    started,    \* cycles started on this root so far
    done,       \* cycles this process has completed
    store,      \* the files under the storage root: path -> content
    urls,       \* run_once: urls
    i,          \* run_once: position of the for loop in urls (1-based)
    seen,       \* run_once: seen
    saved,      \* run_once: saved
    skipped,    \* run_once: skipped
    art,        \* the Article handed to save_article
    log,        \* log[k]: what this cycle did with urls[k], for the URLs considered
    epc,        \* extract_article: position in the field extraction
    full_content,  \* extract_article: full_content, a sequence of characters
    snippet,    \* extract_article: snippet
    tags,       \* extract_article: tags, as collected
    deduped,    \* extract_article: deduped, the final tags
    spc,        \* main: position in the tail of the "while True" body
    now_minute, \* main: now.minute after a cycle
    now_second, \* main: now.second after a cycle
    seconds_to_next_hour,  \* main: seconds_to_next_hour
    slept,      \* main: the argument of time.sleep
    dpc,        \* extract_article: position in the reading of the document
    doc,        \* extract_article: soup, the parsed page
    title_text, \* extract_article: title_text
    paragraphs  \* extract_article: paragraphs

vars == <<strategy, loopMode, limit, pc, exit, exc, started, done, store,
          urls, i, seen, saved, skipped, art, log,
          epc, full_content, snippet, tags, deduped,
          spc, now_minute, now_second, seconds_to_next_hour, slept,
          dpc, doc, title_text, paragraphs>>

extractVars == <<epc, full_content, snippet, tags, deduped>>
sleepVars == <<spc, now_minute, now_second, seconds_to_next_hour, slept>>
docVars == <<dpc, doc, title_text, paragraphs>>
cycleAll == <<strategy, loopMode, limit, pc, exit, exc, started, done, store,
              urls, i, seen, saved, skipped, art, log>>

procVars == <<strategy, loopMode, limit>>
cycleVars == <<urls, i, seen, saved, skipped, art, log>>

(* ------------------------------ the store ------------------------------ *)
\* main.py:277-283: the path is a function of the publish date and the URL's
\* fingerprint (year and month directories derive from the date).
\* the file name without the fingerprint
target_path_by_date(date_iso, url) == [date |-> date_iso, h8 |-> "0000000a"]
target_path(date_iso, url) == [date |-> date_iso, h8 |-> url_md5_8(url)]

PATHS == [date : DATES, h8 : {url_md5_8(u) : u \in URLS}]

\* the date group of the file name instead of the fingerprint group
existing_hashes_group1(st) == {p.date : p \in {q \in PATHS : st[q] # NoFile}}
\* main.py:286-296: the fingerprint component of every stored file name
existing_hashes(st) == {p.h8 : p \in {q \in PATHS : st[q] # NoFile}}

\* the record json.dump writes for an Article (main.py:110-120, 303)
Record(a) == [kind |-> "complete", url |-> a.url, paras |-> a.paras]
\* open(out_path, "w") has created or truncated the file, the dump is not done
Partial(a) == [kind |-> "partial", url |-> a.url, paras |-> a.paras]

\* main.py:325-326: "if limit: urls = urls[:limit]"
Truncate(us, lim) ==
    IF lim = None \/ lim[1] = 0 THEN us
    ELSE SubSeq(us, 1, IF lim[1] < Len(us) THEN lim[1] ELSE Len(us))

\* sorted(urls) of main.py:152: the ascending sequence of a set of URLs
RECURSIVE SortedSeq(_)
SortedSeq(S) ==
    IF S = {} THEN <<>>
    ELSE LET m == CHOOSE x \in S : \A y \in S : x <= y
         IN <<m>> \o SortedSeq(S \ {m})

(* -------------------------------- Init --------------------------------- *)
InitCycle ==
    /\ strategy \in STRATEGIES
    /\ loopMode \in BOOLEAN
    /\ limit \in LIMITS
    /\ pc = "start"
    /\ exit = "running"
    /\ exc = "none"
    /\ started = 0
    /\ done = 0
    /\ store = [p \in PATHS |-> NoFile]
    /\ urls = <<>>
    /\ i = 1
    /\ seen = {}
    /\ saved = 0
    /\ skipped = 0
    /\ art = NoArt
    /\ log = <<>>

\* the cycle model does not look inside the texts of a page
NoExtract ==
    /\ epc = "idle"
    /\ full_content = <<>>
    /\ snippet = <<>>
    /\ tags = <<>>
    /\ deduped = <<>>

\* the cycle model does not read the clock
NoClock ==
    /\ spc = "idle"
    /\ now_minute = 0
    /\ now_second = 0
    /\ seconds_to_next_hour = 0
    /\ slept = 0

\* a page with nothing in it
NoDoc == [h1 |-> <<>>, og |-> <<>>, ps |-> <<>>, containers |-> <<>>, article |-> {}]
\* the cycle model does not parse a page
NoParse ==
    /\ dpc = "idle"
    /\ doc = NoDoc
    /\ title_text = ""
    /\ paragraphs = <<>>

Init == InitCycle /\ NoExtract /\ NoClock /\ NoParse

(* ------------------------------ main() --------------------------------- *)
\* An exception that leaves run_once is caught nowhere in main (main.py:363-375;
\* scrape_playwright.py:535-545 catches KeyboardInterrupt only): the process ends.
Raise(step) ==
    /\ pc' = "exited"
    /\ exit' = "error"
    /\ exc' = step

\* main.py:364 / scrape_playwright.py:531: cycle() calls run_once
StartCycle ==
    /\ pc = "start"
    /\ started < MaxCycles
    /\ started' = started + 1
    /\ pc' = IF strategy = "playwright" THEN "launch" ELSE "discover"
    /\ urls' = <<>>
    /\ i' = 1
    /\ seen' = {}
    /\ saved' = 0
    /\ skipped' = 0
    /\ art' = NoArt
    /\ log' = <<>>
    /\ UNCHANGED <<docVars, sleepVars, extractVars, procVars, exit, exc, done, store>>

\* scrape_playwright.py:455-466: browser, context and home page are created
Launch ==
    /\ pc = "launch"
    /\ pc' = "discover"
    /\ UNCHANGED <<docVars, sleepVars, extractVars, procVars, exit, exc, started, done, store, cycleVars>>

LaunchFail ==
    /\ pc = "launch"
    /\ Raise("launch")
    /\ UNCHANGED <<docVars, sleepVars, extractVars, procVars, started, done, store, cycleVars>>

\* main.py:324 / scrape_playwright.py:467: urls = discover_article_urls()
Discover ==
    /\ pc = "discover"
    /\ \E S \in SUBSET URLS : urls' = SortedSeq(S)
    /\ pc' = "limit"
    /\ UNCHANGED <<docVars, sleepVars, extractVars, procVars, exit, exc, started, done, store,
                   i, seen, saved, skipped, art, log>>

\* main.py:325-326 / scrape_playwright.py:469-471: "if limit: urls = urls[:limit]"
ApplyLimit ==
    /\ pc = "limit"
    /\ urls' = Truncate(urls, limit)
    /\ pc' = "scan"
    /\ UNCHANGED <<docVars, sleepVars, extractVars, procVars, exit, exc, started, done, store,
                   i, seen, saved, skipped, art, log>>

\* main.py:139: http_get raises; scrape_playwright.py:280-283 raise
DiscoverFail ==
    /\ pc = "discover"
    /\ Raise("discovery")
    /\ UNCHANGED <<docVars, sleepVars, extractVars, procVars, started, done, store, cycleVars>>

\* main.py:328-330 / scrape_playwright.py:473-476
Scan ==
    /\ pc = "scan"
    /\ seen' = existing_hashes(store)
    /\ pc' = "loop"
    /\ UNCHANGED <<docVars, sleepVars, extractVars, procVars, exit, exc, started, done, store,
                   urls, i, saved, skipped, art, log>>

\* the scan (or, with Playwright, the article page) raises outside any try
ScanFail ==
    /\ pc = "scan"
    /\ Raise("scan")
    /\ UNCHANGED <<docVars, sleepVars, extractVars, procVars, started, done, store, cycleVars>>

(* ---------------------------- the for loop ----------------------------- *)
AtUrl == pc = "loop" /\ i <= Len(urls)
Advance == i' = i + 1 /\ pc' = "loop"

\* what extract_article does with one URL, given what the page does:
\*   f  what the transport does ("ok", "timeout", "error")
\*   x  TRUE if parsing or extraction raises an unexpected exception
\*   d  the publish date extracted, n the number of non-empty paragraphs
Raised(c) == [kind |-> "raise", cause |-> c]
ReturnedNone(c) == [kind |-> "none", cause |-> c]
Returned(u, d, n) == [kind |-> "article", art |-> [url |-> u, date |-> d, paras |-> n]]

\* main.py:169-274: http_get raises on any transport failure (lines 123-126, 170)
extract_article_requests(u, f, x, d, n) ==
    IF f # "ok" THEN Raised("fetch_error")
    ELSE IF x THEN Raised("extract_error")
    ELSE Returned(u, d, n)

\* scrape_playwright.py:302-441: a timeout of page.goto is swallowed and the
\* partial page is used (308-311), any other goto error returns None (312-314),
\* an empty body returns None (377-380)
extract_article_playwright(u, f, x, d, n) ==
    IF f = "error" THEN ReturnedNone("fetch_error")
    ELSE IF x THEN Raised("extract_error")
    ELSE IF n = 0 THEN ReturnedNone("empty")
    ELSE Returned(u, d, n)

extract_article(u, f, x, d, n) ==
    IF strategy = "playwright" THEN extract_article_playwright(u, f, x, d, n)
    ELSE extract_article_requests(u, f, x, d, n)

\* "if not art" alone
NoContentNoneOnly(r) == r.kind = "none"
\* main.py:339 / scrape_playwright.py:489: "if not art or not art.full_content"
NoContent(r) == r.kind = "none" \/ (r.kind = "article" /\ r.art.paras = 0)

FETCHES == {"ok", "timeout", "error"}

\* main.py:333-336 / scrape_playwright.py:479-483
SkipDuplicate ==
    /\ AtUrl
    /\ url_md5_8(urls[i]) \in seen
    /\ skipped' = skipped + 1
    /\ log' = Append(log, "dup")
    /\ Advance
    /\ UNCHANGED <<docVars, sleepVars, extractVars, procVars, exit, exc, started, done, store, urls, seen, saved, art>>

\* the exception caught by no except clause
ExtractRaisesUncaught ==
    /\ AtUrl
    /\ url_md5_8(urls[i]) \notin seen
    /\ \E f \in FETCHES, x \in BOOLEAN, d \in DATES, n \in 0..MaxParas :
          LET r == extract_article(urls[i], f, x, d, n) IN
          /\ r.kind = "raise"
          /\ log' = Append(log, r.cause)
    /\ Raise("url")
    /\ UNCHANGED <<docVars, sleepVars, extractVars, procVars, started, done, store, urls, i, seen, saved,
                   skipped, art>>

\* main.py:346-349 / scrape_playwright.py:502-503: the exception is printed
ExtractRaises ==
    /\ AtUrl
    /\ url_md5_8(urls[i]) \notin seen
    /\ \E f \in FETCHES, x \in BOOLEAN, d \in DATES, n \in 0..MaxParas :
          LET r == extract_article(urls[i], f, x, d, n) IN
          /\ r.kind = "raise"
          /\ log' = Append(log, r.cause)
    /\ Advance
    /\ UNCHANGED <<docVars, sleepVars, extractVars, procVars, exit, exc, started, done, store, urls, seen, saved,
                   skipped, art>>

\* main.py:339-341 / scrape_playwright.py:489-492
ExtractNoContent ==
    /\ AtUrl
    /\ url_md5_8(urls[i]) \notin seen
    /\ \E f \in FETCHES, x \in BOOLEAN, d \in DATES, n \in 0..MaxParas :
          LET r == extract_article(urls[i], f, x, d, n) IN
          /\ NoContent(r)
          /\ log' = Append(log, IF r.kind = "none" THEN r.cause ELSE "empty")
    /\ skipped' = skipped + 1
    /\ Advance
    /\ UNCHANGED <<docVars, sleepVars, extractVars, procVars, exit, exc, started, done, store, urls, seen, saved, art>>

\* main.py:338-342 / scrape_playwright.py:488-494: save_article is called
ExtractArticle ==
    /\ AtUrl
    /\ url_md5_8(urls[i]) \notin seen
    /\ \E f \in FETCHES, x \in BOOLEAN, d \in DATES, n \in 0..MaxParas :
          LET r == extract_article(urls[i], f, x, d, n) IN
          /\ r.kind = "article"
          /\ ~NoContent(r)
          /\ art' = r.art
          /\ log' = Append(log, "extracted")
    /\ pc' = "saving"
    /\ UNCHANGED <<docVars, sleepVars, extractVars, procVars, exit, exc, started, done, store, urls, i, seen, saved,
                   skipped>>

SetOutcome(o) == log' = [log EXCEPT ![Len(log)] = o]

(* ---------------------------- save_article ----------------------------- *)
\* main.py:300-302: the path is computed, its directories made, and
\* open(out_path, "w") creates the file or truncates the one that is there
SaveOpen ==
    /\ pc = "saving"
    /\ store' = [store EXCEPT ![target_path(art.date, art.url)] = Partial(art)]
    /\ pc' = "writing"
    /\ UNCHANGED <<docVars, sleepVars, extractVars, procVars, exit, exc, started, done, cycleVars>>

\* mkdir or open raises OSError; run_once catches it (main.py:348)
SaveOpenFail ==
    /\ pc = "saving"
    /\ SetOutcome("write_failed")
    /\ Advance
    /\ art' = NoArt
    /\ UNCHANGED <<docVars, sleepVars, extractVars, procVars, exit, exc, started, done, store, urls, seen, saved, skipped>>

\* the same without seen.add(h8)
SaveWriteNoAdd ==
    /\ pc = "writing"
    /\ store' = [store EXCEPT ![target_path(art.date, art.url)] = Record(art)]
    /\ saved' = saved + 1
    /\ SetOutcome("saved")
    /\ Advance
    /\ art' = NoArt
    /\ UNCHANGED <<docVars, sleepVars, extractVars, procVars, exit, exc, started, done, urls, seen, skipped>>

\* main.py:303-304, 343-345: the dump completes, the file is closed,
\* save_article returns; seen.add(h8), saved += 1, sleep
SaveWrite ==
    /\ pc = "writing"
    /\ store' = [store EXCEPT ![target_path(art.date, art.url)] = Record(art)]
    /\ seen' = seen \cup {url_md5_8(art.url)}
    /\ saved' = saved + 1
    /\ SetOutcome("saved")
    /\ Advance
    /\ art' = NoArt
    /\ UNCHANGED <<docVars, sleepVars, extractVars, procVars, exit, exc, started, done, urls, skipped>>

\* the dump raises part-way (disk full, I/O error): the file keeps what was
\* written so far; run_once catches the exception (main.py:348)
SaveWriteFail ==
    /\ pc = "writing"
    /\ SetOutcome("write_failed")
    /\ Advance
    /\ art' = NoArt
    /\ UNCHANGED <<docVars, sleepVars, extractVars, procVars, exit, exc, started, done, store, urls, seen, saved, skipped>>

(* -------------------------- the end of a cycle -------------------------- *)
\* the for loop is exhausted
LoopEnd ==
    /\ pc = "loop"
    /\ i > Len(urls)
    /\ pc' = IF strategy = "playwright" THEN "close" ELSE "returned"
    /\ UNCHANGED <<docVars, sleepVars, extractVars, procVars, exit, exc, started, done, store, cycleVars>>

\* scrape_playwright.py:505-508
Close ==
    /\ pc = "close"
    /\ pc' = "returned"
    /\ UNCHANGED <<docVars, sleepVars, extractVars, procVars, exit, exc, started, done, store, cycleVars>>

CloseFail ==
    /\ pc = "close"
    /\ Raise("close")
    /\ UNCHANGED <<docVars, sleepVars, extractVars, procVars, started, done, store, cycleVars>>

\* main.py:364-375: cycle() prints the counts; without --loop main returns
Report ==
    /\ pc = "returned"
    /\ done' = done + 1
    /\ IF loopMode
         THEN pc' = "sleep" /\ exit' = exit
         ELSE pc' = "exited" /\ exit' = "normal"
    /\ UNCHANGED <<docVars, sleepVars, extractVars, procVars, exc, started, store, cycleVars>>

\* main.py:371-373: sleep until the next hour, then "while True" calls cycle()
Sleep ==
    /\ pc = "sleep"
    /\ pc' = "start"
    /\ UNCHANGED <<docVars, sleepVars, extractVars, procVars, exit, exc, started, done, store, cycleVars>>

(* --------------------------- the environment --------------------------- *)
\* Ctrl+C or a kill, at any point of the process
Interrupt ==
    /\ pc # "exited"
    /\ pc' = "exited"
    /\ exit' = "interrupted"
    /\ UNCHANGED <<docVars, sleepVars, extractVars, procVars, exc, started, done, store, cycleVars>>

\* the same command is started again on the same storage root
Restart ==
    /\ pc = "exited"
    /\ started < MaxCycles
    /\ pc' = "start"
    /\ exit' = "running"
    /\ exc' = "none"
    /\ done' = 0
    /\ UNCHANGED <<docVars, sleepVars, extractVars, procVars, started, store, cycleVars>>

Next ==
    \/ StartCycle \/ Launch \/ LaunchFail \/ Discover \/ DiscoverFail \/ ApplyLimit
    \/ Scan \/ ScanFail
    \/ SkipDuplicate \/ ExtractRaises \/ ExtractNoContent \/ ExtractArticle
    \/ SaveOpen \/ SaveOpenFail \/ SaveWrite \/ SaveWriteFail
    \/ LoopEnd \/ Close \/ CloseFail \/ Report \/ Sleep
    \/ Interrupt \/ Restart

Spec == Init /\ [][Next]_vars

(* ------------------- extract_article: snippet and tags ------------------ *)
\* characters of a text; the ellipsis is the character main.py:221 appends
CHARS == <<"a", "b", "c">>
Ellipsis == "ELLIPSIS"
\* a body of n characters (variant v), every position its own pattern point
Body(n, v) == [k \in 1..n |-> CHARS[((k + v) % 3) + 1]]
BODIES == {Body(n, 0) : n \in 0..MaxBodyLen}

\* tags as texts: sequences of characters in upper or lower case
TAGS == {<<"P", "o">>, <<"p", "o">>, <<"P", "O">>, <<"E">>, <<"e">>}
\* str.lower(), character by character
LowerChar(c) == CASE c = "P" -> "p" [] c = "O" -> "o" [] c = "E" -> "e" [] OTHER -> c
Lower(t) == [k \in 1..Len(t) |-> LowerChar(t[k])]

RECURSIVE SeqsUpTo(_, _)
SeqsUpTo(S, n) ==
    IF n = 0 THEN {<<>>}
    ELSE LET shorter == SeqsUpTo(S, n - 1)
         IN shorter \cup {Append(q, x) : q \in {r \in shorter : Len(r) = n - 1}, x \in S}

Min(a, b) == IF a < b THEN a ELSE b

\* the ellipsis from 200 characters on
SnippetGe(text) ==
    SubSeq(text, 1, Min(SnippetLen, Len(text)))
        \o (IF Len(text) >= SnippetLen THEN <<Ellipsis>> ELSE <<>>)
\* main.py:221: full_content[:200] + ("…" if len(full_content) > 200 else "")
Snippet(text) ==
    SubSeq(text, 1, Min(SnippetLen, Len(text)))
        \o (IF Len(text) > SnippetLen THEN <<Ellipsis>> ELSE <<>>)

\* the same loop with the tag itself as the key
RECURSIVE DedupCaseSensitive(_, _, _)
DedupCaseSensitive(ts, seen_lower, out) ==
    IF ts = <<>> THEN out
    ELSE LET t == Head(ts)
             k == t
         IN IF k \notin seen_lower
              THEN DedupCaseSensitive(Tail(ts), seen_lower \cup {k}, Append(out, t))
              ELSE DedupCaseSensitive(Tail(ts), seen_lower, out)
\* main.py:255-263: the loop over tags with seen_lower and out
RECURSIVE DedupFrom(_, _, _)
DedupFrom(ts, seen_lower, out) ==
    IF ts = <<>> THEN out
    ELSE LET t == Head(ts)
             k == Lower(t)
         IN IF k \notin seen_lower
              THEN DedupFrom(Tail(ts), seen_lower \cup {k}, Append(out, t))
              ELSE DedupFrom(Tail(ts), seen_lower, out)

\* the page has been fetched and its paragraphs joined (main.py:220)
InitExtract ==
    /\ InitCycle
    /\ loopMode = FALSE
    /\ limit = None
    /\ NoClock
    /\ NoParse
    /\ epc = "content"
    /\ full_content \in BODIES
    /\ snippet = <<>>
    /\ tags = <<>>
    /\ deduped = <<>>

\* main.py:221
MakeSnippet ==
    /\ epc = "content"
    /\ snippet' = Snippet(full_content)
    /\ epc' = "tags"
    /\ UNCHANGED <<docVars, sleepVars, cycleAll, full_content, tags, deduped>>

\* main.py:224-253: explicit tags, then the classifier's tags, are collected
CollectTags ==
    /\ epc = "tags"
    /\ tags' \in SeqsUpTo(TAGS, MaxTags)
    /\ epc' = "dedup"
    /\ UNCHANGED <<docVars, sleepVars, cycleAll, full_content, snippet, deduped>>

\* main.py:255-263
DedupTags ==
    /\ epc = "dedup"
    /\ deduped' = DedupFrom(tags, {}, <<>>)
    /\ epc' = "done"
    /\ UNCHANGED <<docVars, sleepVars, cycleAll, full_content, snippet, tags>>

ExtractNext == MakeSnippet \/ CollectTags \/ DedupTags

SpecExtract == InitExtract /\ [][ExtractNext]_vars

(* ------------------------ main: the hourly sleep ------------------------ *)
\* the formula with "60 - now.minute" for "60 - now.minute - 1"
SecondsToNextHourFullMinute(m, sec) == (60 - m) * 60 + (60 - sec)
\* main.py:372 / scrape_playwright.py:540
SecondsToNextHour(m, sec) == (60 - m - 1) * 60 + (60 - sec)

Max(a, b) == IF a > b THEN a ELSE b

\* a cycle of the "while True" loop has returned at some minute and second
InitSleep ==
    /\ InitCycle
    /\ strategy = "requests"
    /\ loopMode = TRUE
    /\ limit = None
    /\ NoExtract
    /\ NoParse
    /\ spc = "now"
    /\ now_minute \in 0..59
    /\ now_second \in 0..59
    /\ seconds_to_next_hour = 0
    /\ slept = 0

\* main.py:371-372: now = datetime.now(PRAGUE_TZ); seconds_to_next_hour = ...
ComputeSleep ==
    /\ spc = "now"
    /\ seconds_to_next_hour' = SecondsToNextHour(now_minute, now_second)
    /\ spc' = "computed"
    /\ UNCHANGED <<docVars, cycleAll, extractVars, now_minute, now_second, slept>>

\* main.py:373: time.sleep(max(60, seconds_to_next_hour))
DoSleep ==
    /\ spc = "computed"
    /\ slept' = Max(60, seconds_to_next_hour)
    /\ spc' = "woken"
    /\ UNCHANGED <<docVars, cycleAll, extractVars, now_minute, now_second, seconds_to_next_hour>>

SleepNext == ComputeSleep \/ DoSleep

SpecSleep == InitSleep /\ [][SleepNext]_vars

(* ------------------ extract_article: title and body --------------------- *)
\* the text inside an element or attribute, as written in the page
TEXTS == {"", " ", "A", " B ", "A  B"}
TITLE_TEXTS == {"", " ", "A"}

\* str.strip(), and get_text(strip=True) of an element with one string
Strip(t) == CASE t = " " -> "" [] t = " B " -> "B" [] OTHER -> t
\* main.py:130-131: runs of whitespace become one space, then strip
normalize_whitespace(t) ==
    CASE t = " " -> "" [] t = " B " -> "B" [] t = "A  B" -> "A B" [] OTHER -> t

\* select() gives the matching elements in document order: an outer
\* container before the ones inside it, the others by their position
InDocumentOrder(cs) ==
    \A a, b \in DOMAIN cs : a < b =>
        \/ cs[b] \subseteq cs[a]
        \/ (cs[a] \cap cs[b] = {} /\ \A x \in cs[a], y \in cs[b] : x < y)

\* a parsed page:
\*   h1, og      <<>> if the element is absent, else <<its text / content>>
\*   ps          the texts of the p elements, in document order
\*   containers  for each element matching the body-container selector, in
\*               document order, the p elements inside it
\*   article     the p elements inside an article element
Docs(maxParas, maxContainers) ==
    UNION {
        { [h1 |-> h, og |-> g, ps |-> ps, containers |-> cs, article |-> ar] :
            h \in {<<>>} \cup {<<t>> : t \in TITLE_TEXTS},
            g \in {<<>>} \cup {<<t>> : t \in TITLE_TEXTS},
            cs \in {c \in SeqsUpTo(SUBSET (1..Len(ps)), maxContainers) : InDocumentOrder(c)},
            ar \in SUBSET (1..Len(ps)) }
        : ps \in SeqsUpTo(TEXTS, maxParas) }

\* main.py:174-181: "soup.select_one('h1') or soup.select_one(meta og:title)":
\* an element that is found is true, whatever its text
Title(d) ==
    IF d.h1 # <<>> THEN Strip(d.h1[1])
    ELSE IF d.og # <<>> THEN Strip(d.og[1])
    ELSE ""

\* main.py:212: the p elements of one container that have text, normalized
RECURSIVE ParasWithText(_, _)
ParasWithText(ps, order) ==
    IF order = <<>> THEN <<>>
    ELSE (IF Strip(ps[Head(order)]) # ""
            THEN <<normalize_whitespace(ps[Head(order)])>> ELSE <<>>)
         \o ParasWithText(ps, Tail(order))

\* main.py:210-213: "for body in body_candidates: ... paragraphs.extend(ps)"
RECURSIVE FromContainers(_, _)
FromContainers(ps, cs) ==
    IF cs = <<>> THEN <<>>
    ELSE ParasWithText(ps, SortedSeq(Head(cs))) \o FromContainers(ps, Tail(cs))

\* main.py:214-218: "if not paragraphs:" the p elements inside article elements
Paragraphs(d) ==
    LET found == FromContainers(d.ps, d.containers)
    IN IF found = <<>> THEN ParasWithText(d.ps, SortedSeq(d.article)) ELSE found

\* the page has been fetched and parsed (main.py:170-171)
InitDoc ==
    /\ InitCycle
    /\ strategy = "requests"
    /\ loopMode = FALSE
    /\ limit = None
    /\ NoExtract
    /\ NoClock
    /\ dpc = "parsed"
    /\ doc \in Docs(MaxDocParas, MaxContainers)
    /\ title_text = ""
    /\ paragraphs = <<>>

\* main.py:173-181
ExtractTitle ==
    /\ dpc = "parsed"
    /\ title_text' = Title(doc)
    /\ dpc' = "title"
    /\ UNCHANGED <<cycleAll, extractVars, sleepVars, doc, paragraphs>>

\* main.py:206-218
ExtractBody ==
    /\ dpc = "title"
    /\ paragraphs' = Paragraphs(doc)
    /\ dpc' = "body"
    /\ UNCHANGED <<cycleAll, extractVars, sleepVars, doc, title_text>>

DocNext == ExtractTitle \/ ExtractBody

SpecDoc == InitDoc /\ [][DocNext]_vars

(* ============================== the claims ============================== *)
\* the URLs whose article save_article has written completely
Written == {store[p].url : p \in {q \in PATHS : store[q].kind = "complete"}}
Fp(k) == url_md5_8(urls[k])
Considered == 1..Len(log)

\* C1: once save_article has written the article of a URL, every cycle that
\* comes to that URL finds its fingerprint in the scanned index, counts it as
\* skipped and does not fetch it.
C1_StoredUrlIsSkipped ==
    [][(AtUrl /\ urls[i] \in Written /\ pc' # "exited")
         => /\ url_md5_8(urls[i]) \in seen
            /\ skipped' = skipped + 1
            /\ log' = Append(log, "dup")
            /\ store' = store]_vars

\* a later cycle has skipped a URL whose article an earlier cycle wrote
C1_Witness ==
    /\ started = 2
    /\ \E k \in Considered : log[k] = "dup" /\ urls[k] \in Written

\* no file under the root holds a record with an empty full_content
StoreNonEmpty == \A p \in PATHS : store[p] # NoFile => store[p].paras > 0

\* C2: a URL whose extraction yields no paragraph leaves the store and the
\* index as they are and adds one to skipped; no stored record has an empty
\* full_content.
C2_EmptyBodyNotStored ==
    /\ []StoreNonEmpty
    /\ [][log' = Append(log, "empty")
            => /\ store' = store
               /\ seen' = seen
               /\ saved' = saved
               /\ skipped' = skipped + 1]_vars

\* a cycle has met an empty body
C2_Witness == \E k \in Considered : log[k] = "empty" /\ skipped > 0

\* C3: after an interruption at any point every file under the root is a
\* complete record.
C3_AllOrNothing ==
    exit = "interrupted" => \A p \in PATHS : store[p].kind # "partial"

\* C4: a URL that fails with a transport error or an unexpected extraction
\* error changes neither counter, writes no file and adds no fingerprint, in
\* both scripts.
C4_FailureCountsNothing ==
    [][(AtUrl /\ Len(log') = Len(log) + 1
          /\ log'[Len(log')] \in {"fetch_error", "extract_error"})
         => /\ saved' = saved
            /\ skipped' = skipped
            /\ store' = store
            /\ seen' = seen]_vars

\* C5 as stated: a cycle is aborted only by a failure of discovery (with
\* Playwright, the launch of the browser that fetches the home page counted
\* with it), and then before any URL is processed; no other step aborts it.
C5_OnlyDiscoveryAborts ==
    exit = "error" => (exc \in {"discovery", "launch"} /\ log = <<>>)

\* C5 as amended: a cycle is aborted exactly by a failure of a step outside
\* the per-URL try block (browser launch, discovery, index scan: before any
\* URL; browser close: after all of them); a run_once that returns has
\* processed every URL, whatever failed on the way.
C5_AbortOnlyOutsideLoop ==
    /\ exit = "error" =>
          /\ exc \in {"launch", "discovery", "scan", "close"}
          /\ exc # "close" => (log = <<>> /\ i = 1)
          /\ exc = "close" => Len(log) = Len(urls)
    /\ pc = "returned" =>
          /\ Len(log) = Len(urls)
          /\ i = Len(urls) + 1
          /\ \A k \in Considered : log[k] # "extracted"

\* a URL failed, the URLs after it were processed and run_once returned
C5_Witness ==
    /\ pc = "returned"
    /\ \E k \in Considered :
          /\ log[k] \in {"fetch_error", "extract_error", "write_failed"}
          /\ k < Len(log)

\* C6: after a URL is saved its fingerprint is in the index, every later URL
\* of the cycle with that fingerprint is skipped unfetched, and no fingerprint
\* is saved twice in a cycle.
C6_SavedFingerprintSkipsLater ==
    \A k \in Considered : log[k] = "saved" =>
        /\ Fp(k) \in seen
        /\ \A l \in Considered : (l > k /\ Fp(l) = Fp(k)) => log[l] = "dup"

\* a colliding URL was skipped after the save of the first
C6_Witness ==
    \E k, l \in Considered :
        k < l /\ log[k] = "saved" /\ log[l] = "dup" /\ Fp(l) = Fp(k)

\* the file at path p is named by the fingerprint of urls[k] and holds its record
HoldsRecordOf(p, k) ==
    /\ p.h8 = Fp(k)
    /\ store[p].kind = "complete"
    /\ store[p].url = urls[k]
C7_BothStored ==
    \A k, l \in Considered :
        (k < l /\ log[k] = "saved" /\ log[l] = "saved" /\ Fp(k) # Fp(l)) =>
            \E p, q \in PATHS : p # q /\ HoldsRecordOf(p, k) /\ HoldsRecordOf(q, l)

\* C7: two URLs of a cycle with different fingerprints that are both saved
\* are in two different files, one per fingerprint, each with its own
\* record; no save changes a file that holds a complete record.
C7_IndependentlyPersisted ==
    /\ []C7_BothStored
    /\ [][\A p \in PATHS : store[p].kind = "complete" => store'[p] = store[p]]_vars

\* two URLs with different fingerprints were saved in one cycle
C7_Witness ==
    \E k, l \in Considered :
        k < l /\ log[k] = "saved" /\ log[l] = "saved" /\ Fp(k) # Fp(l)

\* the position in ts of the first tag whose lower-case form is key
FirstIdx(ts, key) ==
    CHOOSE j \in DOMAIN ts :
        Lower(ts[j]) = key /\ \A h \in 1..(j - 1) : Lower(ts[h]) # key

\* C8: the final tags hold no two entries equal under case-folding, one
\* entry for every case-folded value of the collected tags, each in the casing
\* of its first occurrence and in the order of the first occurrences.
C8_TagsDeduplicated ==
    epc = "done" =>
        /\ \A a, b \in DOMAIN deduped : a # b => Lower(deduped[a]) # Lower(deduped[b])
        /\ {Lower(deduped[a]) : a \in DOMAIN deduped} = {Lower(tags[j]) : j \in DOMAIN tags}
        /\ \A a \in DOMAIN deduped : deduped[a] = tags[FirstIdx(tags, Lower(deduped[a]))]
        /\ \A a, b \in DOMAIN deduped :
              a < b => FirstIdx(tags, Lower(deduped[a])) < FirstIdx(tags, Lower(deduped[b]))

\* ["Po", "po", "E"] has become ["Po", "E"]
C8_Witness ==
    /\ epc = "done"
    /\ tags = << <<"P", "o">>, <<"p", "o">>, <<"E">> >>
    /\ deduped = << <<"P", "o">>, <<"E">> >>

\* C9: the snippet is the first 200 characters of the body, followed by the
\* ellipsis exactly when the body is longer than 200 characters; a body of at
\* most 200 characters is its own snippet.
C9_SnippetTruncation ==
    epc # "content" =>
        /\ Len(full_content) <= 200 => snippet = full_content
        /\ Len(full_content) > 200 =>
              /\ Len(snippet) = 201
              /\ \A k \in 1..200 : snippet[k] = full_content[k]
              /\ snippet[201] = Ellipsis

\* a body of 201 characters was cut to 200 and the ellipsis
C9_Witness ==
    /\ epc # "content"
    /\ Len(full_content) = 201
    /\ Len(snippet) = 201
    /\ snippet[201] = Ellipsis

\* C10: without --loop the process ends normally after exactly one cycle;
\* with --loop it ends only by an interruption.
C10_ExitBehaviour ==
    exit # "running" =>
        \/ exit = "interrupted"
        \/ (~loopMode /\ exit = "normal" /\ done = 1)

\* seconds from the top of the current hour to the start of the next cycle
WakeAt == 60 * now_minute + now_second + slept
Remaining == 3600 - 60 * now_minute - now_second

\* C11 as stated: the sleep lasts exactly the seconds that remain to the top
\* of the next hour, where the next cycle then starts, never later.
C11_SleepsToTopOfHour ==
    spc = "woken" => (slept = Remaining /\ WakeAt = 3600)

\* C11 as amended: seconds_to_next_hour is the seconds that remain to the top
\* of the next hour, and the sleep is that but never less than 60 seconds:
\* with 60 seconds or more remaining the next cycle starts at the top of the
\* hour, with less (minute 59, second 1..59) it starts now_second seconds
\* after it.
C11_SleepAtLeastAMinute ==
    /\ spc # "now" => seconds_to_next_hour = Remaining
    /\ spc = "woken" =>
          /\ Remaining >= 60 => (slept = Remaining /\ WakeAt = 3600)
          /\ Remaining < 60 =>
                (slept = 60 /\ now_minute = 59 /\ WakeAt = 3600 + now_second)

\* a cycle ended at 59:30 and the process slept a full minute
C11_Witness ==
    /\ spc = "woken"
    /\ now_minute = 59
    /\ now_second = 30
    /\ slept = 60

\* C12: with a limit L >= 0 given, the URLs a cycle considers are the first
\* min(L, n) of the n discovered URLs, never more than L.
C12_LimitBoundsCycle ==
    /\ [](limit # None => Len(log) <= limit[1])
    /\ [][(pc = "limit" /\ pc' = "scan" /\ limit # None)
            => urls' = SubSeq(urls, 1, Min(limit[1], Len(urls)))]_vars

\* the value a title rule yields: the stripped text, if the element is there
Yields(e) == IF e = <<>> THEN "" ELSE Strip(e[1])

\* C13: the title is the value of the first rule (h1 text, then og:title
\* content) that yields a non-empty value, and empty only if neither does.
C13_TitleFirstNonEmpty ==
    dpc # "parsed" =>
        title_text = (IF Yields(doc.h1) # "" THEN Yields(doc.h1) ELSE Yields(doc.og))

\* C14: the body is the non-empty paragraphs of the first matching container
\* only, each once and in document order; the paragraphs inside article
\* elements are used exactly when no container matches.
C14_FirstContainerOnly ==
    dpc = "body" =>
        paragraphs =
            (IF doc.containers = <<>>
               THEN ParasWithText(doc.ps, SortedSeq(doc.article))
               ELSE ParasWithText(doc.ps, SortedSeq(doc.containers[1])))

\* the URLs considered so far whose outcome is one of outcomes
Count(outcomes) == Cardinality({k \in Considered : log[k] \in outcomes})
FAILURES == {"fetch_error", "extract_error", "write_failed"}
\* the URLs a step has just saved
NewlySaved ==
    {k \in 1..Len(log') : log'[k] = "saved" /\ (k > Len(log) \/ log[k] # "saved")}

\* C15: every URL considered so far counts in exactly one of saved, skipped
\* or, as a failure, in neither (a URL whose save is under way in none yet);
\* saved is the number of completed save_article calls; seen is the scanned
\* index plus exactly the fingerprints of the saved URLs.
C15_Accounting ==
    /\ [](/\ saved = Count({"saved"})
          /\ saved + skipped + Count(FAILURES) + Count({"extracted"}) = Len(log))
    /\ [][/\ (pc = "scan" /\ pc' = "loop") => seen' = existing_hashes(store)
          /\ pc \in {"loop", "saving", "writing"}
                => seen' = seen \cup {url_md5_8(urls[k]) : k \in NewlySaved}]_vars
====
